---------------------------- MODULE Spec2Model ----------------------------
(***************************************************************************)
(* Model of the collaborative research hub (src/src/App.jsx): a shared     *)
(* document store with two collections (papers, comments) and a number of  *)
(* client sessions, each running one App component.  Every session holds   *)
(* React state fed by live queries and writes to the store through the     *)
(* handlers of App.                                                        *)
(***************************************************************************)
EXTENDS Integers, Sequences, FiniteSets, TLC

(***************************************************************************)
(* Bounds of the model.                                                    *)
(***************************************************************************)
NSessions   == 3   \* client sessions (browser tabs)
NUsers      == 3   \* identities the auth provider can hand out
MaxPapers   == 2   \* papers ever created (ids are never reused)
MaxComments == 2   \* comments ever created (ids are never reused)
MaxAttempts == 2   \* attempts the store gives one transaction
MaxClock    == 1   \* edits the store stamps with updatedAt

Sessions   == 1..NSessions
Users      == 1..NUsers
PaperIds   == 1..MaxPapers
CommentIds == 1..MaxComments

NoUser == 0        \* userId === null
NoErr  == "none"   \* dbError === null

VARIABLES
    \* the store
    papersDb,        \* papers collection: id -> document
    commentsDb,      \* comments collection: id -> document
    clock,           \* server time, stamps updatedAt
    nextPaper,       \* papers created so far (the store assigns fresh ids)
    nextComment,     \* comments created so far
    \* React state of each session
    userId, papers, selectedPaper, comments,
    isEditing, editTitle, editContent,
    showDeleteConfirmation, dbError,
    \* handlers suspended at an await
    likeTx,          \* handleLikePaper: the runTransaction in flight
    delOp,           \* executeDeletePaper: position and paperIdToDelete
    delPending,      \* comment deleteDoc calls launched and not settled
    \* live queries
    papersSub,       \* live listeners of the papers query of each session
    commentsSub,     \* paper ids the live comment listeners filter by
    inflight,        \* comment snapshots sent to a listener, not delivered
    syncErr,         \* history: what a session showed at its last listen error
    papersDue,       \* the papers listener has not delivered its first snapshot
    \* history
    toggled,         \* committed toggles of each identity on each paper
    likeCalls,       \* toggleLike calls each session has started
    likeOutcome,     \* how each session's last toggleLike call ended
    delHist,         \* what each session's last deletePaper did
    editedBy,        \* the identities whose updateDoc has written each paper
    rejected         \* the calls of each session that returned at the guard

storeVars   == <<papersDb, commentsDb, clock, nextPaper, nextComment>>
uiVars      == <<userId, papers, selectedPaper, comments, isEditing,
                 editTitle, editContent, showDeleteConfirmation, dbError>>
opVars      == <<likeTx, delOp, delPending>>
histVars    == <<toggled, likeCalls, likeOutcome, delHist, editedBy>>
subVars     == <<papersSub, commentsSub, inflight, syncErr, papersDue>>
vars        == <<storeVars, uiVars, opVars, histVars, subVars, rejected>>

(***************************************************************************)
(* Helpers for JavaScript values.                                          *)
(***************************************************************************)
\* Array.prototype.includes
Includes(seq, x) == \E i \in 1..Len(seq) : seq[i] = x

\* Array.prototype.filter(uid => uid !== x)
Without(seq, x) == SelectSeq(seq, LAMBDA y : y # x)

\* Math.max(0, n)
Max0(n) == IF n < 0 THEN 0 ELSE n

\* String.prototype.trim on the texts the model types in
Trim(t) == CASE t = " "  -> ""
             [] t = " a" -> "a"
             [] t = "b " -> "b"
             [] OTHER    -> t

\* selectedPaper is null (<<>>) or one paper object (<<p>>)
NoPaper     == << >>
HasSel(s)   == selectedPaper[s] # NoPaper
Sel(s)      == selectedPaper[s][1]

\* const isPaperAuthor = selectedPaper && userId === selectedPaper.authorId
isPaperAuthor(s) == HasSel(s) /\ userId[s] = Sel(s).authorId

(***************************************************************************)
(* The store.  A collection is a function from the ids of the documents    *)
(* that exist to their data.                                               *)
(***************************************************************************)
PaperExists(p) == p \in DOMAIN papersDb

\* deleteDoc: succeeds whether or not the document exists
DeleteFrom(coll, id) == [x \in DOMAIN coll \ {id} |-> coll[x]]

\* addDoc: the document under a fresh id
AddTo(coll, id, data) == [x \in DOMAIN coll \cup {id} |->
                             IF x = id THEN data ELSE coll[x]]

\* Faulty variant: the query yields one matching comment only.
CommentsOf_FirstMatch(p) ==
    {c \in DOMAIN commentsDb :
        /\ commentsDb[c].paperId = p
        /\ \A d \in DOMAIN commentsDb : commentsDb[d].paperId = p => c <= d}

\* where("paperId", "==", p) over the comments collection
CommentsOf(p) == {c \in DOMAIN commentsDb : commentsDb[c].paperId = p}

\* history: the comments in the store whose paperId is p
Referencing(p) == {c \in DOMAIN commentsDb : commentsDb[c].paperId = p}

\* A comment's timestamp is null (<< >>) or one Timestamp object.
NoTimestamp == << >>
Timestamp(sec, ns) == << [seconds |-> sec, nanoseconds |-> ns] >>

\* serverTimestamp(): the store's time when it applies the write
serverTimestamp == Timestamp(clock + 1, 0)

\* (a.timestamp?.seconds || 0)
sortKey(d) ==
    IF d.timestamp = NoTimestamp THEN 0 ELSE d.timestamp[1].seconds

\* Array.prototype.sort((a, b) => sortKey(a) - sortKey(b)): a stable sort
RECURSIVE InsertSorted(_, _)
InsertSorted(sorted, d) ==
    IF sorted = << >>
    THEN << d >>
    ELSE IF sortKey(sorted[Len(sorted)]) <= sortKey(d)
         THEN Append(sorted, d)
         ELSE Append(InsertSorted(SubSeq(sorted, 1, Len(sorted) - 1), d),
                     sorted[Len(sorted)])

RECURSIVE sortComments(_)
sortComments(docs) ==
    IF docs = << >>
    THEN << >>
    ELSE InsertSorted(sortComments(SubSeq(docs, 1, Len(docs) - 1)),
                      docs[Len(docs)])

\* the ids of a query result in the order the store returns them
RECURSIVE AscendingIds(_)
AscendingIds(S) ==
    IF S = {}
    THEN << >>
    ELSE LET m == CHOOSE x \in S : \A y \in S : x <= y
         IN  << m >> \o AscendingIds(S \ {m})

\* snapshot.docs.map(doc => ({id: doc.id, ...doc.data()})) for paper p
fetchedComments(p) ==
    [i \in 1..Cardinality(CommentsOf(p)) |->
        commentsDb[AscendingIds(CommentsOf(p))[i]]]

\* A write to paper p invalidates every transaction that has read p and has
\* not committed: its commit will find the document changed.
Invalidate(p) == [s \in Sessions |->
                    IF likeTx[s].pc = "commit" /\ likeTx[s].id = p
                    THEN [likeTx[s] EXCEPT !.stale = TRUE]
                    ELSE likeTx[s]]

IdleTx == [pc |-> "idle", id |-> 0, attempt |-> 0, likes |-> 0,
           likedBy |-> << >>, stale |-> FALSE]
IdleDel == [pc |-> "idle", id |-> 0]
NoHist  == [id |-> 0, by |-> 0, author |-> 0, start |-> {}, matched |-> {},
            failed |-> {}, result |-> "none"]

(***************************************************************************)
(* Initial state: every App mounted, nobody signed in, an empty store.     *)
(***************************************************************************)
InitStore ==
    /\ papersDb = << >>
    /\ commentsDb = << >>
    /\ clock = 0
    /\ nextPaper = 0
    /\ nextComment = 0

\* focus[s] is the id of the paper session s has selected from list, or 0
InitSessionsOn(uid, list, focus) ==
    /\ userId = uid
    /\ papers = [s \in Sessions |-> IF uid[s] = NoUser THEN << >> ELSE list]
    /\ selectedPaper = [s \in Sessions |->
                          IF focus[s] = 0 THEN NoPaper
                          ELSE << list[focus[s]] >>]
    /\ comments = [s \in Sessions |-> << >>]
    /\ isEditing = [s \in Sessions |-> FALSE]
    /\ editTitle = [s \in Sessions |-> ""]
    /\ editContent = [s \in Sessions |-> ""]
    /\ showDeleteConfirmation = [s \in Sessions |-> FALSE]
    /\ dbError = [s \in Sessions |-> NoErr]
    /\ likeTx = [s \in Sessions |-> IdleTx]
    /\ delOp = [s \in Sessions |-> IdleDel]
    /\ delPending = [s \in Sessions |-> {}]
    /\ toggled = [u \in Users |-> [p \in PaperIds |-> 0]]
    /\ likeCalls = [s \in Sessions |-> 0]
    /\ likeOutcome = [s \in Sessions |-> "none"]
    /\ delHist = [s \in Sessions |-> NoHist]
    /\ editedBy = [p \in PaperIds |-> {}]
    /\ papersSub = [s \in Sessions |-> IF uid[s] = NoUser THEN 0 ELSE 1]
    /\ commentsSub = [s \in Sessions |->
                        IF focus[s] = 0 THEN {} ELSE {focus[s]}]
    /\ inflight = [s \in Sessions |-> << >>]
    /\ syncErr = [s \in Sessions |-> << >>]
    /\ papersDue = [s \in Sessions |-> uid[s] # NoUser /\ focus[s] # 0]
    /\ rejected = [s \in Sessions |-> {}]

InitSessions(uid, list) ==
    InitSessionsOn(uid, list, [s \in Sessions |-> 0])

Init == InitStore /\ InitSessions([s \in Sessions |-> NoUser], << >>)

(***************************************************************************)
(* What the rendered page lets the user do.                                *)
(***************************************************************************)
\* {showDeleteConfirmation && selectedPaper && <DeleteConfirmationModal/>}:
\* a full-screen overlay above the page
ModalShown(s) == showDeleteConfirmation[s] /\ HasSel(s)

\* {selectedPaper ? renderDetailView() : renderListView()}
ListView(s)   == ~HasSel(s) /\ ~ModalShown(s)
DetailView(s) == HasSel(s) /\ ~ModalShown(s)

(***************************************************************************)
(* The live queries.  The papers effect and the comments effect run again  *)
(* whenever userId or selectedPaper changes: the cleanup of the previous   *)
(* run unsubscribes its listener, then the effect subscribes a new one.    *)
(* An unsubscribed listener delivers nothing more; a listener that has     *)
(* delivered an error is ended by the store.                               *)
(***************************************************************************)
MaxInFlight == 1   \* comment snapshots in flight to one session

\* papers effect: return () => unsubscribe(), then onSnapshot(papersQuery)
papersEffect(s, uid) ==
    LET cleaned == IF papersSub[s] > 0 THEN papersSub[s] - 1 ELSE 0
    IN  IF uid = NoUser THEN cleaned ELSE cleaned + 1

\* comments effect: return () => unsubscribe(), then
\* onSnapshot(query(..., where("paperId", "==", selectedPaper.id)))
commentsEffect(s, uid, sel) ==
    IF uid = NoUser \/ sel = NoPaper THEN {} ELSE {sel[1].id}

\* Faulty variant: snapshots in flight are still delivered after unsubscribe.
Unsubscribed_StillDelivers(s) == inflight[s]

\* the snapshots a listener still delivers once unsubscribe() was called
Unsubscribed(s) == << >>

\* both effects run for the new userId and selectedPaper
RunEffects(s, uid, sel) ==
    /\ papersSub' = [papersSub EXCEPT ![s] = papersEffect(s, uid)]
    /\ commentsSub' = [commentsSub EXCEPT ![s] = commentsEffect(s, uid, sel)]
    /\ inflight' = [inflight EXCEPT ![s] = Unsubscribed(s)]
    /\ papersDue' = [papersDue EXCEPT ![s] = uid # NoUser]
    /\ UNCHANGED syncErr

(***************************************************************************)
(* 1. Authentication: onAuthStateChanged delivers the signed-in user, or   *)
(* null.                                                                   *)
(***************************************************************************)
Authenticate(s, u) ==
    /\ userId[s] = NoUser
    /\ userId' = [userId EXCEPT ![s] = u]
    /\ RunEffects(s, u, selectedPaper[s])
    /\ UNCHANGED <<storeVars, papers, selectedPaper, comments, isEditing,
                   editTitle, editContent, showDeleteConfirmation, dbError,
                   opVars, histVars, rejected>>

\* comments effect: setComments([]) when there is no user or no focus
CommentsAfter(s, uid, sel) ==
    IF uid = NoUser \/ sel = NoPaper THEN << >> ELSE comments[s]

\* onAuthStateChanged delivers null: setUserId(null)
SignOut(s) ==
    /\ userId[s] # NoUser
    /\ userId' = [userId EXCEPT ![s] = NoUser]
    /\ comments' = [comments EXCEPT
                      ![s] = CommentsAfter(s, NoUser, selectedPaper[s])]
    /\ RunEffects(s, NoUser, selectedPaper[s])
    /\ UNCHANGED <<storeVars, papers, selectedPaper, isEditing, editTitle,
                   editContent, showDeleteConfirmation, dbError, opVars,
                   histVars, rejected>>

(***************************************************************************)
(* 2. Papers live query: one snapshot of the collection is delivered, or   *)
(* an error.                                                               *)
(***************************************************************************)
\* Faulty variant: the focus keeps the copy it had.
Reselect_KeepsOldCopy(s, fetchedPapers) ==
    IF HasSel(s)
    THEN IF Sel(s).id \in DOMAIN fetchedPapers
         THEN selectedPaper[s]
         ELSE NoPaper
    ELSE selectedPaper[s]

\* the focus after a snapshot: the fresh copy of the focused paper, or null
Reselect(s, fetchedPapers) ==
    IF HasSel(s)
    THEN IF Sel(s).id \in DOMAIN fetchedPapers
         THEN << fetchedPapers[Sel(s).id] >>
         ELSE NoPaper
    ELSE selectedPaper[s]

PapersSnapshot(s) ==
    /\ userId[s] # NoUser
    /\ papersSub[s] > 0
    /\ papers' = [papers EXCEPT ![s] = papersDb]
    /\ dbError' = [dbError EXCEPT ![s] = NoErr]
    /\ selectedPaper' = [selectedPaper EXCEPT ![s] = Reselect(s, papersDb)]
    /\ comments' = [comments EXCEPT
                      ![s] = CommentsAfter(s, userId[s], Reselect(s, papersDb))]
    /\ IF HasSel(s)
       THEN RunEffects(s, userId[s], Reselect(s, papersDb))
       ELSE /\ papersDue' = [papersDue EXCEPT ![s] = FALSE]
            /\ UNCHANGED <<papersSub, commentsSub, inflight, syncErr>>
    /\ UNCHANGED <<storeVars, userId, isEditing, editTitle, editContent,
                   showDeleteConfirmation, opVars, histVars, rejected>>

\* history: the list, the comments and the focus session s shows now
Showing(s) ==
    << [papers |-> papers[s], comments |-> comments[s],
        focus |-> selectedPaper[s]] >>

\* Faulty variant: the error callback empties the list.
PapersError_DropsList(s) ==
    /\ papersSub[s] > 0
    /\ dbError' = [dbError EXCEPT ![s] = "Failed to load papers"]
    /\ papers' = [papers EXCEPT ![s] = << >>]
    /\ papersSub' = [papersSub EXCEPT ![s] = @ - 1]
    /\ papersDue' = [papersDue EXCEPT ![s] = FALSE]
    /\ syncErr' = [syncErr EXCEPT ![s] = Showing(s)]
    /\ UNCHANGED <<storeVars, userId, selectedPaper, comments,
                   isEditing, editTitle, editContent, showDeleteConfirmation,
                   opVars, histVars, commentsSub, inflight, rejected>>

\* the error callback of the papers listener; the store ends the listener
PapersError(s) ==
    /\ papersSub[s] > 0
    /\ dbError' = [dbError EXCEPT ![s] = "Failed to load papers"]
    /\ papersSub' = [papersSub EXCEPT ![s] = @ - 1]
    /\ papersDue' = [papersDue EXCEPT ![s] = FALSE]
    /\ syncErr' = [syncErr EXCEPT ![s] = Showing(s)]
    /\ UNCHANGED <<storeVars, userId, papers, selectedPaper, comments,
                   isEditing, editTitle, editContent, showDeleteConfirmation,
                   opVars, histVars, commentsSub, inflight, rejected>>

(***************************************************************************)
(* 3. Comments live query for the focused paper.                           *)
(***************************************************************************)
\* the snapshot callback of the comments listener
ApplyCommentsSnapshot(s, docs) ==
    comments' = [comments EXCEPT ![s] = sortComments(docs)]

\* a snapshot that reaches the session as soon as the store sends it
CommentsSnapshot(s) ==
    /\ userId[s] # NoUser
    /\ HasSel(s)
    /\ Sel(s).id \in commentsSub[s]
    /\ inflight[s] = << >>
    /\ ApplyCommentsSnapshot(s, fetchedComments(Sel(s).id))
    /\ UNCHANGED <<storeVars, userId, papers, selectedPaper, isEditing,
                   editTitle, editContent, showDeleteConfirmation, dbError,
                   opVars, histVars, subVars, rejected>>

\* the store sends a snapshot to a live comments listener
CommentsSend(s) ==
    /\ Len(inflight[s]) < MaxInFlight
    /\ \E p \in commentsSub[s] :
          inflight' = [inflight EXCEPT
                         ![s] = Append(@, [paperId |-> p,
                                           docs |-> fetchedComments(p)])]
    /\ UNCHANGED <<storeVars, uiVars, opVars, histVars, papersSub,
                   commentsSub, syncErr, papersDue, rejected>>

\* a snapshot in flight reaches the session
CommentsDeliver(s) ==
    /\ inflight[s] # << >>
    /\ ApplyCommentsSnapshot(s, Head(inflight[s]).docs)
    /\ inflight' = [inflight EXCEPT ![s] = Tail(@)]
    /\ UNCHANGED <<storeVars, userId, papers, selectedPaper, isEditing,
                   editTitle, editContent, showDeleteConfirmation, dbError,
                   opVars, histVars, papersSub, commentsSub, syncErr,
                   papersDue, rejected>>

\* the error callback of the comments listener; the store ends the listener
CommentsError(s) ==
    /\ commentsSub[s] # {}
    /\ inflight[s] = << >>
    /\ dbError' = [dbError EXCEPT ![s] = "Failed to load comments"]
    /\ commentsSub' = [commentsSub EXCEPT ![s] = {}]
    /\ syncErr' = [syncErr EXCEPT ![s] = Showing(s)]
    /\ UNCHANGED <<storeVars, userId, papers, selectedPaper, comments,
                   isEditing, editTitle, editContent, showDeleteConfirmation,
                   opVars, histVars, papersSub, inflight, papersDue,
                   rejected>>

(***************************************************************************)
(* Selecting a paper from the list, and going back to the list.            *)
(***************************************************************************)
SelectPaper(s, p) ==
    /\ ListView(s)
    /\ p \in DOMAIN papers[s]
    /\ selectedPaper' = [selectedPaper EXCEPT ![s] = << papers[s][p] >>]
    /\ RunEffects(s, userId[s], << papers[s][p] >>)
    /\ UNCHANGED <<storeVars, userId, papers, comments, isEditing, editTitle,
                   editContent, showDeleteConfirmation, dbError, opVars,
                   histVars, rejected>>

BackToDashboard(s) ==
    /\ DetailView(s)
    /\ selectedPaper' = [selectedPaper EXCEPT ![s] = NoPaper]
    /\ isEditing' = [isEditing EXCEPT ![s] = FALSE]
    /\ comments' = [comments EXCEPT ![s] = << >>]
    /\ RunEffects(s, userId[s], NoPaper)
    /\ UNCHANGED <<storeVars, userId, papers, editTitle, editContent,
                   showDeleteConfirmation, dbError, opVars, histVars,
                   rejected>>

(***************************************************************************)
(* addPaper                                                                *)
(***************************************************************************)
\* history: the call op of session s returned at the guard of its handler
Reject(s, op) ==
    rejected' = [rejected EXCEPT
                   ![s] = @ \cup {<<op, IF userId[s] = NoUser
                                        THEN "unauthenticated"
                                        ELSE "invalid">>}]

\* Faulty variant: the guard compares the texts as typed, untrimmed.
AddPaperRejected_Untrimmed(s, t, c) ==
    userId[s] = NoUser \/ t = "" \/ c = ""

\* if (!db || !userId || !newPaperTitle.trim() || !newPaperContent.trim())
AddPaperRejected(s, t, c) ==
    userId[s] = NoUser \/ Trim(t) = "" \/ Trim(c) = ""

\* a paper as addDoc stores it (updatedAt 0: never edited)
NewPaper(id, author, title, content) ==
    [id |-> id, title |-> title, content |-> content, authorId |-> author,
     likes |-> 0, likedBy |-> << >>, updatedAt |-> 0]

paperPayload(s, t, c, id) == NewPaper(id, userId[s], Trim(t), Trim(c))

handleAddPaper(s, t, c, ok) ==
    /\ ListView(s)
    /\ IF AddPaperRejected(s, t, c)
       THEN /\ Reject(s, "addPaper")
            /\ UNCHANGED <<papersDb, nextPaper, dbError>>
       ELSE /\ nextPaper < MaxPapers
            /\ UNCHANGED rejected
            /\ IF ok
               THEN /\ papersDb' = AddTo(papersDb, nextPaper + 1,
                                         paperPayload(s, t, c, nextPaper + 1))
                    /\ nextPaper' = nextPaper + 1
                    /\ UNCHANGED dbError
               ELSE /\ dbError' = [dbError EXCEPT
                          ![s] = "Failed to save paper"]
                    /\ UNCHANGED <<papersDb, nextPaper>>
    /\ UNCHANGED <<commentsDb, clock, nextComment, userId, papers,
                   selectedPaper, comments, isEditing, editTitle, editContent,
                   showDeleteConfirmation, opVars, histVars>>
    /\ UNCHANGED subVars

(***************************************************************************)
(* toggleLike: handleLikePaper runs one store transaction.  The store      *)
(* runs the update function on a read of the paper, commits its write if   *)
(* the paper has not changed since the read, and otherwise runs it again,  *)
(* MaxAttempts times at most.                                              *)
(***************************************************************************)
\* Faulty variants of newLikedBy: an unlike that keeps the identity, and an
\* append without the membership check.
newLikedBy_KeepsOnUnlike(likedBy, uid) ==
    IF Includes(likedBy, uid) THEN likedBy ELSE Append(likedBy, uid)

newLikedBy_AlwaysAppends(likedBy, uid) == Append(likedBy, uid)

\* data.likes of a document that has no likes field
Undefined == -9

\* data.likes || 0
likesOrZero(likes) == IF likes = Undefined THEN 0 ELSE likes

\* Faulty variant: the unlike decrements without the floor.
newLikesCount_NoFloor(likes, likedBy, uid) ==
    IF Includes(likedBy, uid)
    THEN likesOrZero(likes) - 1
    ELSE likesOrZero(likes) + 1

\* the update function: what the transaction writes for the data it read
newLikesCount(likes, likedBy, uid) ==
    IF Includes(likedBy, uid)
    THEN Max0(likesOrZero(likes) - 1)
    ELSE IF ~Includes(likedBy, uid)
         THEN likesOrZero(likes) + 1
         ELSE likesOrZero(likes)

newLikedBy(likedBy, uid) ==
    IF Includes(likedBy, uid)
    THEN Without(likedBy, uid)
    ELSE IF ~Includes(likedBy, uid) THEN Append(likedBy, uid) ELSE likedBy

\* Faulty variant: the update writes likedBy and leaves likes as it was.
LikeWrite_ListOnly(doc, likes, likedBy, uid) ==
    [doc EXCEPT !.likedBy = newLikedBy(likedBy, uid)]

\* transaction.update(paperDocRef, {likes, likedBy})
LikeWrite(doc, likes, likedBy, uid) ==
    [doc EXCEPT !.likes = newLikesCount(likes, likedBy, uid),
                !.likedBy = newLikedBy(likedBy, uid)]

\* Faulty variant: the handler without its guard.
LikeRejected_Never(s) == FALSE

\* if (!db || !userId) return;
LikeRejected(s) == userId[s] = NoUser

handleLikePaper(s, p) ==
    /\ ListView(s)
    /\ p \in DOMAIN papers[s]
    /\ IF LikeRejected(s)
       THEN /\ Reject(s, "toggleLike")
            /\ UNCHANGED <<likeTx, likeCalls>>
       ELSE /\ likeTx[s].pc = "idle"
            /\ likeTx' = [likeTx EXCEPT
                  ![s] = [IdleTx EXCEPT !.pc = "get", !.id = p,
                                        !.attempt = 1]]
            /\ likeCalls' = [likeCalls EXCEPT ![s] = @ + 1]
            /\ UNCHANGED rejected
    /\ UNCHANGED <<storeVars, uiVars, delOp, delPending, toggled, editedBy,
                   likeOutcome, delHist, subVars>>

\* Faulty variant: a missing paper is read as empty data and the update goes on.
TxGetMissing_GoesOn(s) ==
    /\ likeTx' = [likeTx EXCEPT ![s] = [@ EXCEPT !.pc = "commit",
                                                 !.stale = FALSE]]
    /\ UNCHANGED <<storeVars, uiVars, delOp, delPending, histVars>>

\* await transaction.get(paperDocRef); if (!paperDoc.exists()) throw ...
TxGetMissing(s) ==
    /\ likeTx' = [likeTx EXCEPT ![s] = IdleTx]
    /\ dbError' = [dbError EXCEPT ![s] = "Failed to toggle like"]
    /\ likeOutcome' = [likeOutcome EXCEPT ![s] = "Document does not exist!"]
    /\ UNCHANGED <<storeVars, userId, papers, selectedPaper, comments,
                   isEditing, editTitle, editContent, showDeleteConfirmation,
                   delOp, delPending, toggled, editedBy, likeCalls, delHist>>

TxGet(s) ==
    /\ likeTx[s].pc = "get"
    /\ IF ~PaperExists(likeTx[s].id)
       THEN TxGetMissing(s)
       ELSE /\ likeTx' = [likeTx EXCEPT
                  ![s] = [@ EXCEPT !.pc = "commit",
                                   !.likes = papersDb[likeTx[s].id].likes,
                                   !.likedBy = papersDb[likeTx[s].id].likedBy,
                                   !.stale = FALSE]]
            /\ UNCHANGED <<storeVars, uiVars, delOp, delPending, histVars>>
    /\ UNCHANGED <<subVars, rejected>>

\* the store commits the write of a transaction whose read is still current
TxCommitted(s) ==
    /\ papersDb' = [papersDb EXCEPT
          ![likeTx[s].id] = LikeWrite(@, likeTx[s].likes, likeTx[s].likedBy,
                                      userId[s])]
    /\ likeTx' = [Invalidate(likeTx[s].id) EXCEPT ![s] = IdleTx]
    /\ toggled' = [toggled EXCEPT ![userId[s]][likeTx[s].id] = @ + 1]
    /\ likeOutcome' = [likeOutcome EXCEPT ![s] = "ok"]
    /\ UNCHANGED <<commentsDb, clock, nextPaper, nextComment, uiVars, delOp,
                   delPending, likeCalls, delHist, editedBy>>

\* Faulty variant: the update function is run again however often it has run.
TxConflict_NeverGivesUp(s) ==
    /\ likeTx' = [likeTx EXCEPT
          ![s] = [@ EXCEPT !.pc = "get",
                           !.attempt = IF @ < MaxAttempts THEN @ + 1 ELSE @]]
    /\ UNCHANGED <<storeVars, uiVars, delOp, delPending, histVars>>

\* the paper changed since the read: run the update function again, or give up
TxConflict(s) ==
    IF likeTx[s].attempt < MaxAttempts
    THEN /\ likeTx' = [likeTx EXCEPT ![s] = [@ EXCEPT !.pc = "get",
                                                      !.attempt = @ + 1]]
         /\ UNCHANGED <<storeVars, uiVars, delOp, delPending, histVars>>
    ELSE /\ likeTx' = [likeTx EXCEPT ![s] = IdleTx]
         /\ dbError' = [dbError EXCEPT ![s] = "Failed to toggle like"]
         /\ likeOutcome' = [likeOutcome EXCEPT ![s] = "exhausted"]
         /\ UNCHANGED <<storeVars, userId, papers, selectedPaper, comments,
                        isEditing, editTitle, editContent,
                        showDeleteConfirmation, delOp, delPending, toggled, editedBy,
                        likeCalls, delHist>>

\* Faulty variant: the write is committed whether or not the paper has changed.
TxCommit_NoConflictCheck(s) ==
    /\ likeTx[s].pc = "commit"
    /\ TxCommitted(s)
    /\ UNCHANGED <<subVars, rejected>>

TxCommit(s) ==
    /\ likeTx[s].pc = "commit"
    /\ IF likeTx[s].stale THEN TxConflict(s) ELSE TxCommitted(s)
    /\ UNCHANGED <<subVars, rejected>>

(***************************************************************************)
(* editPaper: the Edit button, the edit form, Save Changes and Cancel.     *)
(***************************************************************************)
handleEditClick(s) ==
    /\ DetailView(s)
    /\ ~isEditing[s]
    /\ isPaperAuthor(s)
    /\ editTitle' = [editTitle EXCEPT ![s] = Sel(s).title]
    /\ editContent' = [editContent EXCEPT ![s] = Sel(s).content]
    /\ isEditing' = [isEditing EXCEPT ![s] = TRUE]
    /\ UNCHANGED <<storeVars, userId, papers, selectedPaper, comments,
                   showDeleteConfirmation, dbError, opVars, histVars>>
    /\ UNCHANGED <<subVars, rejected>>

\* typing in the edit form
TypeEdit(s, t, c) ==
    /\ DetailView(s)
    /\ isEditing[s]
    /\ editTitle' = [editTitle EXCEPT ![s] = t]
    /\ editContent' = [editContent EXCEPT ![s] = c]
    /\ UNCHANGED <<storeVars, userId, papers, selectedPaper, comments,
                   isEditing, showDeleteConfirmation, dbError, opVars,
                   histVars>>
    /\ UNCHANGED <<subVars, rejected>>

CancelEdit(s) ==
    /\ DetailView(s)
    /\ isEditing[s]
    /\ isEditing' = [isEditing EXCEPT ![s] = FALSE]
    /\ UNCHANGED <<storeVars, userId, papers, selectedPaper, comments,
                   editTitle, editContent, showDeleteConfirmation, dbError,
                   opVars, histVars>>
    /\ UNCHANGED <<subVars, rejected>>

UpdateRejected(s) ==
    \/ userId[s] = NoUser
    \/ ~HasSel(s)
    \/ Trim(editTitle[s]) = ""
    \/ Trim(editContent[s]) = ""

\* Faulty variant: the whole document is written from the focused copy.
UpdateWrite_FromFocus(doc, s, now) ==
    [Sel(s) EXCEPT !.title = Trim(editTitle[s]),
                   !.content = Trim(editContent[s]),
                   !.updatedAt = now]

\* updateDoc(paperDocRef, {title, content, updatedAt: serverTimestamp()})
UpdateWrite(doc, s, now) ==
    [doc EXCEPT !.title = Trim(editTitle[s]),
                !.content = Trim(editContent[s]),
                !.updatedAt = now]

\* Save Changes.  updateDoc fails when the paper is gone or the store
\* refuses the write (ok = FALSE).
handleUpdatePaper(s, ok) ==
    /\ DetailView(s)
    /\ isEditing[s]
    /\ IF UpdateRejected(s)
       THEN /\ Reject(s, "editPaper")
            /\ UNCHANGED <<papersDb, clock, isEditing, dbError, likeTx,
                           editedBy>>
       ELSE /\ clock < MaxClock
            /\ UNCHANGED rejected
            /\ IF ok /\ PaperExists(Sel(s).id)
               THEN /\ papersDb' = [papersDb EXCEPT
                          ![Sel(s).id] = UpdateWrite(@, s, clock + 1)]
                    /\ clock' = clock + 1
                    /\ likeTx' = Invalidate(Sel(s).id)
                    /\ isEditing' = [isEditing EXCEPT ![s] = FALSE]
                    /\ editedBy' = [editedBy EXCEPT
                          ![Sel(s).id] = @ \cup {userId[s]}]
                    /\ UNCHANGED dbError
               ELSE /\ dbError' = [dbError EXCEPT
                          ![s] = "Failed to update paper"]
                    /\ UNCHANGED <<papersDb, clock, isEditing, likeTx,
                                   editedBy>>
    /\ UNCHANGED <<commentsDb, nextPaper, nextComment, userId, papers,
                   selectedPaper, comments, editTitle, editContent,
                   showDeleteConfirmation, delOp, delPending, toggled,
                   likeCalls, likeOutcome, delHist>>
    /\ UNCHANGED subVars

(***************************************************************************)
(* deletePaper: the Delete button, the confirmation modal, and             *)
(* executeDeletePaper, which awaits the paper's deleteDoc, awaits the      *)
(* comment query, and launches one deleteDoc per matched comment without   *)
(* awaiting it.                                                            *)
(***************************************************************************)
handleDeletePaperClick(s) ==
    /\ DetailView(s)
    /\ ~isEditing[s]
    /\ isPaperAuthor(s)
    /\ showDeleteConfirmation' = [showDeleteConfirmation EXCEPT ![s] = TRUE]
    /\ UNCHANGED <<storeVars, userId, papers, selectedPaper, comments,
                   isEditing, editTitle, editContent, dbError, opVars,
                   histVars>>
    /\ UNCHANGED <<subVars, rejected>>

CancelDelete(s) ==
    /\ ModalShown(s)
    /\ showDeleteConfirmation' = [showDeleteConfirmation EXCEPT ![s] = FALSE]
    /\ UNCHANGED <<storeVars, userId, papers, selectedPaper, comments,
                   isEditing, editTitle, editContent, dbError, opVars,
                   histVars>>
    /\ UNCHANGED <<subVars, rejected>>

\* Faulty variant: the guard without the author check.
DeleteRejected_AnyUser(s) == userId[s] = NoUser \/ ~HasSel(s)

\* if (!db || !userId || !selectedPaper || !isPaperAuthor)
DeleteRejected(s) ==
    userId[s] = NoUser \/ ~HasSel(s) \/ ~isPaperAuthor(s)

\* Yes, Delete Paper: up to the first await
executeDeletePaper(s) ==
    /\ ModalShown(s)
    /\ (DeleteRejected(s) \/ delOp[s].pc = "idle")
    /\ IF DeleteRejected(s)
       THEN /\ showDeleteConfirmation' =
                   [showDeleteConfirmation EXCEPT ![s] = FALSE]
            /\ delHist' = [delHist EXCEPT
                  ![s] = [NoHist EXCEPT !.id = Sel(s).id, !.by = userId[s],
                                        !.author = Sel(s).authorId,
                                        !.result = "rejected"]]
            /\ UNCHANGED delOp
       ELSE /\ delOp' = [delOp EXCEPT ![s] = [pc |-> "paper",
                                               id |-> Sel(s).id]]
            /\ delHist' = [delHist EXCEPT
                  ![s] = [NoHist EXCEPT !.id = Sel(s).id, !.by = userId[s],
                                        !.author = Sel(s).authorId,
                                        !.start = Referencing(Sel(s).id),
                                        !.result = "running"]]
            /\ UNCHANGED showDeleteConfirmation
    /\ UNCHANGED <<storeVars, userId, papers, selectedPaper, comments,
                   isEditing, editTitle, editContent, dbError, likeTx,
                   delPending, toggled, editedBy, likeCalls, likeOutcome>>
    /\ UNCHANGED <<subVars, rejected>>

\* catch (e) { setDbError(...) } finally { setShowDeleteConfirmation(false) }
DeleteFailed(s) ==
    /\ dbError' = [dbError EXCEPT ![s] = "Failed to delete paper"]
    /\ showDeleteConfirmation' = [showDeleteConfirmation EXCEPT ![s] = FALSE]
    /\ delOp' = [delOp EXCEPT ![s] = IdleDel]
    /\ delHist' = [delHist EXCEPT ![s] = [@ EXCEPT !.result = "error"]]

\* Faulty variant: a failed paper delete is ignored and the cascade goes on.
DeletePaperDoc_GoesOn(s, ok) ==
    /\ delOp[s].pc = "paper"
    /\ papersDb' = IF ok THEN DeleteFrom(papersDb, delOp[s].id) ELSE papersDb
    /\ likeTx' = IF ok THEN Invalidate(delOp[s].id) ELSE likeTx
    /\ delOp' = [delOp EXCEPT ![s] = [@ EXCEPT !.pc = "query"]]
    /\ UNCHANGED <<dbError, showDeleteConfirmation, delHist>>
    /\ UNCHANGED <<commentsDb, clock, nextPaper, nextComment, userId, papers,
                   selectedPaper, comments, isEditing, editTitle, editContent,
                   delPending, toggled, editedBy, likeCalls, likeOutcome>>
    /\ UNCHANGED <<subVars, rejected>>

\* 1. await deleteDoc(paperDocRef) settles
DeletePaperDoc(s, ok) ==
    /\ delOp[s].pc = "paper"
    /\ IF ok
       THEN /\ papersDb' = DeleteFrom(papersDb, delOp[s].id)
            /\ likeTx' = Invalidate(delOp[s].id)
            /\ delOp' = [delOp EXCEPT ![s] = [@ EXCEPT !.pc = "query"]]
            /\ UNCHANGED <<dbError, showDeleteConfirmation, delHist>>
       ELSE /\ DeleteFailed(s)
            /\ UNCHANGED <<papersDb, likeTx>>
    /\ UNCHANGED <<commentsDb, clock, nextPaper, nextComment, userId, papers,
                   selectedPaper, comments, isEditing, editTitle, editContent,
                   delPending, toggled, editedBy, likeCalls, likeOutcome>>
    /\ UNCHANGED <<subVars, rejected>>

\* 2. await getDocs(...) settles; the forEach launches the comment deletes;
\* setSelectedPaper(null); finally
DeleteQuery(s, ok) ==
    /\ delOp[s].pc = "query"
    /\ IF ok
       THEN /\ delPending' = [delPending EXCEPT
                   ![s] = @ \cup CommentsOf(delOp[s].id)]
            /\ selectedPaper' = [selectedPaper EXCEPT ![s] = NoPaper]
            /\ comments' = [comments EXCEPT ![s] = << >>]
            /\ showDeleteConfirmation' =
                   [showDeleteConfirmation EXCEPT ![s] = FALSE]
            /\ delOp' = [delOp EXCEPT ![s] = IdleDel]
            /\ delHist' = [delHist EXCEPT
                  ![s] = [@ EXCEPT !.matched = CommentsOf(delOp[s].id),
                                   !.result = "success"]]
            /\ IF HasSel(s)
               THEN RunEffects(s, userId[s], NoPaper)
               ELSE UNCHANGED subVars
            /\ UNCHANGED dbError
       ELSE /\ DeleteFailed(s)
            /\ UNCHANGED <<delPending, selectedPaper, comments, subVars>>
    /\ UNCHANGED <<storeVars, userId, papers, isEditing, editTitle,
                   editContent, likeTx, toggled, editedBy, likeCalls, likeOutcome>>
    /\ UNCHANGED rejected

\* Faulty variant: the comment deletes are awaited one after the other inside the
\* try block, so the first failure ends the loop and is caught.
DeleteCommentDoc_AbortsOnFailure(s, c, ok) ==
    /\ c \in delPending[s]
    /\ IF ok
       THEN /\ commentsDb' = DeleteFrom(commentsDb, c)
            /\ delPending' = [delPending EXCEPT ![s] = @ \ {c}]
            /\ UNCHANGED <<delHist, dbError>>
       ELSE /\ delHist' = [delHist EXCEPT
                  ![s] = [@ EXCEPT !.failed = @ \cup {c},
                                   !.result = "error"]]
            /\ delPending' = [delPending EXCEPT ![s] = {}]
            /\ dbError' = [dbError EXCEPT ![s] = "Failed to delete paper"]
            /\ UNCHANGED commentsDb
    /\ UNCHANGED <<papersDb, clock, nextPaper, nextComment, userId, papers,
                   selectedPaper, comments, isEditing, editTitle, editContent,
                   showDeleteConfirmation, likeTx, delOp, toggled, editedBy,
                   likeCalls, likeOutcome>>
    /\ UNCHANGED <<subVars, rejected>>

\* 3. one launched deleteDoc(comment) settles; nothing awaits or catches it
DeleteCommentDoc(s, c, ok) ==
    /\ c \in delPending[s]
    /\ delPending' = [delPending EXCEPT ![s] = @ \ {c}]
    /\ IF ok
       THEN /\ commentsDb' = DeleteFrom(commentsDb, c)
            /\ UNCHANGED delHist
       ELSE /\ delHist' = [delHist EXCEPT
                  ![s] = [@ EXCEPT !.failed = @ \cup {c}]]
            /\ UNCHANGED commentsDb
    /\ UNCHANGED <<papersDb, clock, nextPaper, nextComment, uiVars, likeTx,
                   delOp, toggled, editedBy, likeCalls, likeOutcome>>
    /\ UNCHANGED <<subVars, rejected>>

(***************************************************************************)
(* addComment and deleteComment                                            *)
(***************************************************************************)
AddCommentRejected(s, text) ==
    userId[s] = NoUser \/ ~HasSel(s) \/ Trim(text) = ""

commentPayload(s, text, id) ==
    [id |-> id, paperId |-> Sel(s).id, userId |-> userId[s],
     text |-> Trim(text), timestamp |-> serverTimestamp]

handleAddComment(s, text, ok) ==
    /\ DetailView(s)
    /\ IF AddCommentRejected(s, text)
       THEN /\ Reject(s, "addComment")
            /\ UNCHANGED <<commentsDb, nextComment, dbError>>
       ELSE /\ nextComment < MaxComments
            /\ UNCHANGED rejected
            /\ IF ok
               THEN /\ commentsDb' =
                          AddTo(commentsDb, nextComment + 1,
                                commentPayload(s, text, nextComment + 1))
                    /\ nextComment' = nextComment + 1
                    /\ UNCHANGED dbError
               ELSE /\ dbError' = [dbError EXCEPT
                          ![s] = "Failed to save comment"]
                    /\ UNCHANGED <<commentsDb, nextComment>>
    /\ UNCHANGED <<papersDb, clock, nextPaper, userId, papers, selectedPaper,
                   comments, isEditing, editTitle, editContent,
                   showDeleteConfirmation, opVars, histVars>>
    /\ UNCHANGED subVars

\* Faulty variant: the delete button is rendered for every listed comment.
DeleteButtonShown_ForAll(s, c) ==
    \E i \in 1..Len(comments[s]) : comments[s][i].id = c

\* CommentItem renders the delete button of a listed comment for its author
DeleteButtonShown(s, c) ==
    \E i \in 1..Len(comments[s]) :
        /\ comments[s][i].id = c
        /\ userId[s] = comments[s][i].userId

DeleteCommentRejected(s) == userId[s] = NoUser

\* handleDeleteComment(commentId): the function, whoever calls it
deleteCommentCall(s, c, ok) ==
    /\ IF DeleteCommentRejected(s)
       THEN /\ Reject(s, "deleteComment")
            /\ UNCHANGED <<commentsDb, dbError>>
       ELSE /\ UNCHANGED rejected
            /\ IF ok
               THEN /\ commentsDb' = DeleteFrom(commentsDb, c)
                    /\ UNCHANGED dbError
               ELSE /\ dbError' = [dbError EXCEPT
                          ![s] = "Failed to delete comment"]
                    /\ UNCHANGED commentsDb
    /\ UNCHANGED <<papersDb, clock, nextPaper, nextComment, userId, papers,
                   selectedPaper, comments, isEditing, editTitle, editContent,
                   showDeleteConfirmation, opVars, histVars>>
    /\ UNCHANGED subVars

\* the delete button of a listed comment: onDelete(comment.id)
handleDeleteComment(s, c, ok) ==
    /\ DetailView(s)
    /\ DeleteButtonShown(s, c)
    /\ deleteCommentCall(s, c, ok)

(***************************************************************************)
(* The whole system.                                                       *)
(***************************************************************************)
InputTexts == {"", " a", "b "}

Next ==
    \/ \E s \in Sessions, u \in Users : Authenticate(s, u)
    \/ \E s \in Sessions : SignOut(s)
    \/ \E s \in Sessions : PapersSnapshot(s)
    \/ \E s \in Sessions : PapersError(s)
    \/ \E s \in Sessions : CommentsSnapshot(s)
    \/ \E s \in Sessions : CommentsSend(s)
    \/ \E s \in Sessions : CommentsDeliver(s)
    \/ \E s \in Sessions : CommentsError(s)
    \/ \E s \in Sessions, p \in PaperIds : SelectPaper(s, p)
    \/ \E s \in Sessions : BackToDashboard(s)
    \/ \E s \in Sessions, t, c \in InputTexts, ok \in BOOLEAN :
          handleAddPaper(s, t, c, ok)
    \/ \E s \in Sessions, p \in PaperIds : handleLikePaper(s, p)
    \/ \E s \in Sessions : TxGet(s)
    \/ \E s \in Sessions : TxCommit(s)
    \/ \E s \in Sessions : handleEditClick(s)
    \/ \E s \in Sessions, t, c \in InputTexts : TypeEdit(s, t, c)
    \/ \E s \in Sessions : CancelEdit(s)
    \/ \E s \in Sessions, ok \in BOOLEAN : handleUpdatePaper(s, ok)
    \/ \E s \in Sessions : handleDeletePaperClick(s)
    \/ \E s \in Sessions : CancelDelete(s)
    \/ \E s \in Sessions : executeDeletePaper(s)
    \/ \E s \in Sessions, ok \in BOOLEAN : DeletePaperDoc(s, ok)
    \/ \E s \in Sessions, ok \in BOOLEAN : DeleteQuery(s, ok)
    \/ \E s \in Sessions, c \in CommentIds, ok \in BOOLEAN :
          DeleteCommentDoc(s, c, ok)
    \/ \E s \in Sessions, text \in InputTexts, ok \in BOOLEAN :
          handleAddComment(s, text, ok)
    \/ \E s \in Sessions, c \in CommentIds, ok \in BOOLEAN :
          handleDeleteComment(s, c, ok)

Spec == Init /\ [][Next]_vars

(***************************************************************************)
(* Starting points later than the mount of the App: the users are signed   *)
(* in, user authors[i] has published paper i, nobody has touched the       *)
(* papers since, and the papers snapshot showing them has reached every    *)
(* signed-in session.                                                      *)
(***************************************************************************)
Published(authors) ==
    [i \in 1..Len(authors) |-> NewPaper(i, authors[i], "a", "b")]

PublishedStore(authors) ==
    /\ papersDb = Published(authors)
    /\ commentsDb = << >>
    /\ clock = 0
    /\ nextPaper = Len(authors)
    /\ nextComment = 0

InitPublished(uid, authors) ==
    /\ InitSessions(uid, Published(authors))
    /\ PublishedStore(authors)

\* ... and session s has selected paper focus[s] from its list (0: none)
InitFocused(uid, authors, focus) ==
    /\ InitSessionsOn(uid, Published(authors), focus)
    /\ PublishedStore(authors)

(***************************************************************************)
(* Likes: NLikers sessions, each signed in as its own identity, toggle     *)
(* their like on paper 1 concurrently, CallsEach times each at most.       *)
(***************************************************************************)
NLikers   == 3
CallsEach == 1

Likers == 1..NLikers

InitLikes ==
    InitPublished([s \in Sessions |-> IF s \in Likers THEN s ELSE NoUser],
                  <<1>>)

NextLikes ==
    \/ \E s \in Likers, p \in PaperIds :
          likeCalls[s] < CallsEach /\ handleLikePaper(s, p)
    \/ \E s \in Likers : TxGet(s)
    \/ \E s \in Likers : TxCommit(s)

SpecLikes == InitLikes /\ [][NextLikes]_vars

(***************************************************************************)
(* Author: user 1 has two tabs open (sessions 1 and 2); paper 1 is theirs, *)
(* paper 2 is user 2's.  The tabs browse, edit and delete.                 *)
(***************************************************************************)
Tabs == {1, 2}

InitAuthor ==
    InitPublished([s \in Sessions |-> IF s \in Tabs THEN 1 ELSE NoUser],
                  <<1, 2>>)

NextAuthor ==
    \/ \E s \in Tabs : PapersSnapshot(s)
    \/ \E s \in Tabs, p \in PaperIds : SelectPaper(s, p)
    \/ \E s \in Tabs : BackToDashboard(s)
    \/ \E s \in Tabs : handleEditClick(s)
    \/ \E s \in Tabs : TypeEdit(s, "c", "d ")
    \/ \E s \in Tabs : CancelEdit(s)
    \/ \E s \in Tabs : handleUpdatePaper(s, TRUE)
    \/ \E s \in Tabs : handleDeletePaperClick(s)
    \/ \E s \in Tabs : CancelDelete(s)
    \/ \E s \in Tabs : executeDeletePaper(s)
    \/ \E s \in Tabs : DeletePaperDoc(s, TRUE)
    \/ \E s \in Tabs : DeleteQuery(s, TRUE)

SpecAuthor == InitAuthor /\ [][NextAuthor]_vars

(***************************************************************************)
(* Store: user 1 (session 1) publishes, edits and deletes papers while     *)
(* user 2 (session 2) likes them from its list.                            *)
(***************************************************************************)
StoreCalls  == 1   \* toggleLike calls of one session
StorePapers == 1   \* papers user 1 publishes

StoreUsers == {1, 2}

InitStoreSpec ==
    /\ InitStore
    /\ InitSessions([s \in Sessions |-> IF s \in StoreUsers THEN s ELSE NoUser],
                    << >>)

NextStore ==
    \/ nextPaper < StorePapers /\ handleAddPaper(1, " a", "b ", TRUE)
    \/ \E s \in StoreUsers : PapersSnapshot(s)
    \/ \E p \in PaperIds : SelectPaper(1, p)
    \/ \E p \in PaperIds :
          likeCalls[2] < StoreCalls /\ handleLikePaper(2, p)
    \/ TxGet(2)
    \/ TxCommit(2)
    \/ handleEditClick(1)
    \/ TypeEdit(1, "c", "d ")
    \/ handleUpdatePaper(1, TRUE)
    \/ handleDeletePaperClick(1)
    \/ executeDeletePaper(1)
    \/ DeletePaperDoc(1, TRUE)
    \/ DeleteQuery(1, TRUE)

SpecStore == InitStoreSpec /\ [][NextStore]_vars

(***************************************************************************)
(* Cascade: user 1 (session 1) owns paper 1 and deletes it; user 2         *)
(* (session 2) reads it and comments on it.  Store calls of the cascade    *)
(* may fail.                                                               *)
(***************************************************************************)
Readers == {1, 2}

InitCascade ==
    InitPublished([s \in Sessions |-> IF s \in Readers THEN s ELSE NoUser],
                  <<1>>)

NextCascade ==
    \/ \E s \in Readers : PapersSnapshot(s)
    \/ CommentsSnapshot(2)
    \/ \E s \in Readers, p \in PaperIds : SelectPaper(s, p)
    \/ BackToDashboard(2)
    \/ \E s \in Readers : handleAddComment(s, "a", TRUE)
    \/ \E c \in CommentIds : handleDeleteComment(2, c, TRUE)
    \/ handleDeletePaperClick(1)
    \/ executeDeletePaper(1)
    \/ \E ok \in BOOLEAN : DeletePaperDoc(1, ok)
    \/ \E ok \in BOOLEAN : DeleteQuery(1, ok)
    \/ \E c \in CommentIds, ok \in BOOLEAN : DeleteCommentDoc(1, c, ok)

SpecCascade == InitCascade /\ [][NextCascade]_vars

(***************************************************************************)
(* Toggles: two tabs of user 1 (sessions 1 and 2) and user 2 (session 3)   *)
(* toggle their like on paper 1 again and again.                           *)
(***************************************************************************)
ToggleCalls == 2   \* toggleLike calls of one session

Togglers == {1, 2, 3}

InitToggles ==
    InitPublished([s \in Sessions |->
                      IF s \in Togglers THEN (IF s <= 2 THEN 1 ELSE 2)
                      ELSE NoUser],
                  <<1>>)

NextToggles ==
    \/ \E s \in Togglers, p \in PaperIds :
          likeCalls[s] < ToggleCalls /\ handleLikePaper(s, p)
    \/ \E s \in Togglers : TxGet(s)
    \/ \E s \in Togglers : TxCommit(s)

SpecToggles == InitToggles /\ [][NextToggles]_vars

(***************************************************************************)
(* Focus: user 1 (session 1) owns papers 1 and 2 and edits and deletes     *)
(* them; users 2 and 3 (sessions 2 and 3) have paper 1 and paper 2 open    *)
(* and comment on them.                                                    *)
(***************************************************************************)
FocusComments == 1   \* comments user 3 writes

Watchers == {2, 3}

InitFocus ==
    InitFocused([s \in Sessions |-> IF s \in 1..3 THEN s ELSE NoUser],
                <<1, 1>>,
                [s \in Sessions |-> IF s \in Watchers THEN s - 1 ELSE 0])

NextFocus ==
    \/ \E p \in PaperIds : SelectPaper(1, p)
    \/ handleEditClick(1)
    \/ TypeEdit(1, "c", "d ")
    \/ handleUpdatePaper(1, TRUE)
    \/ handleDeletePaperClick(1)
    \/ executeDeletePaper(1)
    \/ DeletePaperDoc(1, TRUE)
    \/ DeleteQuery(1, TRUE)
    \/ \E s \in Watchers : PapersSnapshot(s)
    \/ CommentsSnapshot(3)
    \/ nextComment < FocusComments /\ handleAddComment(3, "a", TRUE)

SpecFocus == InitFocus /\ [][NextFocus]_vars

(***************************************************************************)
(* Sort: user 1 (session 1) has paper 1 open; the paper has any comments   *)
(* with any timestamps, a pending one included; comment snapshots are sent *)
(* and delivered.                                                          *)
(***************************************************************************)
SortStamps == {NoTimestamp, Timestamp(1, 0), Timestamp(1, 5),
               Timestamp(2, 0), Timestamp(3, 0)}

InitSort ==
    /\ InitSessionsOn([s \in Sessions |-> IF s = 1 THEN 1 ELSE NoUser],
                      Published(<<1>>),
                      [s \in Sessions |-> IF s = 1 THEN 1 ELSE 0])
    /\ papersDb = Published(<<1>>)
    /\ clock = 0
    /\ nextPaper = 1
    /\ nextComment \in 0..MaxComments
    /\ commentsDb \in [1..nextComment ->
          [id : CommentIds, paperId : {1}, userId : {1}, text : {"a"},
           timestamp : SortStamps]]
    /\ \A c \in DOMAIN commentsDb : commentsDb[c].id = c

NextSort ==
    \/ CommentsSend(1)
    \/ CommentsDeliver(1)

SpecSort == InitSort /\ [][NextSort]_vars

(***************************************************************************)
(* Sync: user 2 (session 2) moves between papers 1 and 2 of user 1 and     *)
(* comments on them while its live queries deliver snapshots and errors.   *)
(***************************************************************************)
InitSync ==
    InitPublished([s \in Sessions |-> IF s = 2 THEN 2 ELSE NoUser],
                  <<1, 1>>)

NextSync ==
    \/ PapersSnapshot(2)
    \/ PapersError(2)
    \/ \E p \in PaperIds : SelectPaper(2, p)
    \/ BackToDashboard(2)
    \/ CommentsSend(2)
    \/ CommentsDeliver(2)
    \/ CommentsError(2)
    \/ handleAddComment(2, "a", TRUE)

SpecSync == InitSync /\ [][NextSync]_vars

(***************************************************************************)
(* Errors: user 1 (session 1) edits its paper 1; user 2 (session 2) reads  *)
(* it and comments on it while its live queries deliver snapshots and      *)
(* errors.                                                                 *)
(***************************************************************************)
ErrComments == 1   \* comments user 2 writes

InitErrors ==
    InitPublished([s \in Sessions |-> IF s \in 1..2 THEN s ELSE NoUser],
                  <<1>>)

NextErrors ==
    \/ \E p \in PaperIds : SelectPaper(1, p)
    \/ handleEditClick(1)
    \/ TypeEdit(1, "c", "d ")
    \/ handleUpdatePaper(1, TRUE)
    \/ PapersSnapshot(2)
    \/ PapersError(2)
    \/ \E p \in PaperIds : SelectPaper(2, p)
    \/ BackToDashboard(2)
    \/ CommentsSend(2)
    \/ CommentsDeliver(2)
    \/ CommentsError(2)
    \/ nextComment < ErrComments /\ handleAddComment(2, "a", TRUE)

SpecErrors == InitErrors /\ [][NextErrors]_vars

(***************************************************************************)
(* Guards: user 1 (session 1) owns paper 1, comments on it, and opens the  *)
(* edit form and the delete modal, while the auth provider signs the       *)
(* session out and in again.  The list, the focus, the edit form and the   *)
(* modal stay on the page when the identity goes, and the user goes on     *)
(* submitting and clicking.                                                *)
(***************************************************************************)
InitGuards ==
    InitPublished([s \in Sessions |-> IF s = 1 THEN 1 ELSE NoUser], <<1>>)

NextGuards ==
    \/ SignOut(1)
    \/ Authenticate(1, 1)
    \/ CommentsSnapshot(1)
    \/ \E p \in PaperIds : SelectPaper(1, p)
    \/ BackToDashboard(1)
    \/ handleEditClick(1)
    \/ CancelEdit(1)
    \/ handleDeletePaperClick(1)
    \/ handleAddComment(1, " a", TRUE)
    \/ \E c \in CommentIds : handleDeleteComment(1, c, TRUE)
    \* signed out
    \/ userId[1] = NoUser /\ handleAddPaper(1, " a", "b ", TRUE)
    \/ \E p \in PaperIds : userId[1] = NoUser /\ handleLikePaper(1, p)
    \/ userId[1] = NoUser /\ handleUpdatePaper(1, TRUE)
    \/ userId[1] = NoUser /\ executeDeletePaper(1)
    \* a call of the function that does not come from a rendered button
    \/ \E c \in CommentIds : userId[1] = NoUser /\ deleteCommentCall(1, c, TRUE)

SpecGuards == InitGuards /\ [][NextGuards]_vars

(***************************************************************************)
(* Inputs: user 1 (session 1) owns paper 1 and submits the three forms     *)
(* with texts that are empty, blank, or padded.                            *)
(***************************************************************************)
FormTexts == {"", " ", " a"}

InitInputs ==
    InitPublished([s \in Sessions |-> IF s = 1 THEN 1 ELSE NoUser], <<1>>)

NextInputs ==
    \/ \E p \in PaperIds : SelectPaper(1, p)
    \/ BackToDashboard(1)
    \/ \E t \in FormTexts, c \in FormTexts : handleAddPaper(1, t, c, TRUE)
    \/ handleEditClick(1)
    \/ \E t \in FormTexts, c \in FormTexts : TypeEdit(1, t, c)
    \/ handleUpdatePaper(1, TRUE)
    \/ \E text \in FormTexts : handleAddComment(1, text, TRUE)

SpecInputs == InitInputs /\ [][NextInputs]_vars

(***************************************************************************)
(* Comments: users 1 and 2 (sessions 1 and 2) both have paper 1 open,      *)
(* which is user 1's.  Both write comments, read each other's, and delete  *)
(* with the buttons they are shown; user 1 deletes the paper.              *)
(***************************************************************************)
Commenters == {1, 2}

InitComments ==
    InitFocused([s \in Sessions |-> IF s \in Commenters THEN s ELSE NoUser],
                <<1>>,
                [s \in Sessions |-> IF s \in Commenters THEN 1 ELSE 0])

NextComments ==
    \/ \E s \in Commenters : CommentsSnapshot(s)
    \/ \E s \in Commenters : handleAddComment(s, "a", TRUE)
    \/ \E s \in Commenters, c \in CommentIds : handleDeleteComment(s, c, TRUE)
    \/ handleDeletePaperClick(1)
    \/ executeDeletePaper(1)
    \/ \E ok \in BOOLEAN : DeletePaperDoc(1, ok)
    \/ DeleteQuery(1, TRUE)
    \/ \E c \in CommentIds, ok \in BOOLEAN : DeleteCommentDoc(1, c, ok)

SpecComments == InitComments /\ [][NextComments]_vars

(***************************************************************************)
(* Repair: paper 1 is in the store as some other writer left it: likes is  *)
(* missing, negative, or any count up to MaxStoredLikes, and likedBy is    *)
(* any list of at most MaxStoredLikedBy identities, whether or not the two *)
(* agree.  Users 1 and 2 (sessions 1 and 2) toggle their like on it.       *)
(***************************************************************************)
MaxStoredLikes   == 2
MaxStoredLikedBy == 2
RepairCalls      == 1   \* toggleLike calls of one session

Repairers == {1, 2}

StoredLikes == {Undefined} \cup (-1..MaxStoredLikes)

StoredLikedBy ==
    UNION {[1..n -> Repairers] : n \in 0..MaxStoredLikedBy}

StoredPaper(likes, likedBy) ==
    << [NewPaper(1, 1, "a", "b") EXCEPT !.likes = likes,
                                       !.likedBy = likedBy] >>

InitRepair ==
    \E likes \in StoredLikes, likedBy \in StoredLikedBy :
        /\ papersDb = StoredPaper(likes, likedBy)
        /\ commentsDb = << >>
        /\ clock = 0
        /\ nextPaper = 1
        /\ nextComment = 0
        /\ InitSessions([s \in Sessions |->
                            IF s \in Repairers THEN s ELSE NoUser],
                        StoredPaper(likes, likedBy))

NextRepair ==
    \/ \E s \in Repairers, p \in PaperIds :
          likeCalls[s] < RepairCalls /\ handleLikePaper(s, p)
    \/ \E s \in Repairers : TxGet(s)
    \/ \E s \in Repairers : TxCommit(s)

SpecRepair == InitRepair /\ [][NextRepair]_vars

(***************************************************************************)
(* Quiet: users 1 and 2 (sessions 1 and 2) open and leave papers 1 and 2   *)
(* while user 3 (session 3) toggles its like QuietCalls times; after that  *)
(* the store no longer changes.  The store sends a papers snapshot to a    *)
(* listener that has not had its first one, or whose session shows a list  *)
(* that is not the store's, and it sends every snapshot it owes.           *)
(***************************************************************************)
QuietCalls == 1

Viewers == {1, 2}

InitQuiet ==
    InitPublished([s \in Sessions |-> IF s \in 1..3 THEN s ELSE NoUser],
                  <<1, 1>>)

\* the store owes session s a papers snapshot
SnapshotOwed(s) ==
    /\ papersSub[s] > 0
    /\ (papersDue[s] \/ papers[s] # papersDb)

OwedSnapshot(s) == SnapshotOwed(s) /\ PapersSnapshot(s)

NextQuiet ==
    \/ \E s \in Viewers, p \in PaperIds : SelectPaper(s, p)
    \/ \E s \in Viewers : BackToDashboard(s)
    \/ \E s \in 1..3 : OwedSnapshot(s)
    \/ \E p \in PaperIds : likeCalls[3] < QuietCalls /\ handleLikePaper(3, p)
    \/ TxGet(3)
    \/ TxCommit(3)

SpecQuiet ==
    /\ InitQuiet
    /\ [][NextQuiet]_vars
    /\ \A s \in 1..3 : WF_vars(OwedSnapshot(s))
    /\ WF_vars(TxGet(3))
    /\ WF_vars(TxCommit(3))

(***************************************************************************)
(* Properties                                                              *)
(***************************************************************************)
NoDuplicates(seq) == \A i, j \in 1..Len(seq) : seq[i] = seq[j] => i = j
Elements(seq)     == {seq[i] : i \in 1..Len(seq)}

\* every liker has called toggleLike exactly once and every call has ended
AllLikersDone ==
    \A s \in Likers : likeCalls[s] = 1 /\ likeTx[s].pc = "idle"

\* the likers whose transaction committed
Committed == {s \in Likers : likeOutcome[s] = "ok"}

\* C1 as stated: once the NLikers callers have each toggled paper 1 once,
\* likes = NLikers and likedBy holds exactly the NLikers identities.
C1_AllLikesCounted ==
    AllLikersDone =>
        /\ papersDb[1].likes = NLikers
        /\ Elements(papersDb[1].likedBy) = {userId[s] : s \in Likers}
        /\ Len(papersDb[1].likedBy) = NLikers

\* C1 amended: once the NLikers callers have each toggled paper 1 once,
\* likes is the number of callers whose transaction committed, likedBy holds
\* exactly those callers, each once, and every other call ended with the
\* retry bound exhausted and the error shown to its caller.
C1_CommittedLikesCounted ==
    AllLikersDone =>
        /\ papersDb[1].likes = Cardinality(Committed)
        /\ Elements(papersDb[1].likedBy) = {userId[s] : s \in Committed}
        /\ Len(papersDb[1].likedBy) = Cardinality(Committed)
        /\ \A s \in Likers \ Committed :
              /\ likeOutcome[s] = "exhausted"
              /\ dbError[s] = "Failed to toggle like"
        /\ (\A s \in Likers : dbError[s] = NoErr)
              => papersDb[1].likes = NLikers

C1_Witness ==
    /\ AllLikersDone
    /\ papersDb[1].likes = NLikers
    /\ Len(papersDb[1].likedBy) = NLikers

C3_ToggleParity ==
    \A p \in DOMAIN papersDb :
        /\ papersDb[p].likes >= 0
        /\ \A u \in Users :
              Includes(papersDb[p].likedBy, u) <=> (toggled[u][p] % 2 = 1)

C3_Witness ==
    /\ toggled[2][1] = 2
    /\ ~Includes(papersDb[1].likedBy, 2)
    /\ toggled[1][1] = 3
    /\ Includes(papersDb[1].likedBy, 1)

\* C4: in every state of the store, no identity is twice in a paper's
\* likedBy.
C4_LikedByUnique ==
    \A p \in DOMAIN papersDb : NoDuplicates(papersDb[p].likedBy)

C4_Witness ==
    /\ Len(papersDb[1].likedBy) = 2
    /\ \E s \in Togglers : likeTx[s].attempt = 2
    /\ toggled[1][1] >= 2

\* A step in which session s's transaction reads a paper that is not in the
\* store.
C5_MissingPaperStep(s) ==
    (/\ likeTx[s].pc = "get"
     /\ ~PaperExists(likeTx[s].id)
     /\ likeTx'[s] # likeTx[s])
    => /\ papersDb' = papersDb
       /\ likeTx'[s] = IdleTx
       /\ dbError'[s] = "Failed to toggle like"
       /\ likeOutcome'[s] = "Document does not exist!"

\* C5: a transaction attempt that reads a paper that is not in the store
\* ends the toggleLike call there: nothing is written, the paper stays
\* absent, the error is shown to the caller, and no attempt follows.
C5_ToggleOnMissingPaper ==
    [][\A s \in Sessions : C5_MissingPaperStep(s)]_vars

C5_Witness ==
    \E s \in Sessions :
        /\ likeOutcome[s] = "Document does not exist!"
        /\ dbError[s] = "Failed to toggle like"
        /\ papersDb = << >>

\* C6 as stated: no caller other than a paper's author ever gets a store
\* update of the paper through editPaper.
C6_EditOnlyByAuthor ==
    \A p \in DOMAIN papersDb : editedBy[p] \subseteq {papersDb[p].authorId}

\* A step of session s that changes the confirmation flag or delOp while no
\* delete of s is in flight, or that records a rejection, is s answering the
\* modal; the steps of a delete in flight belong to an earlier call.
C7_AnswersModal(s) ==
    \/ /\ delOp[s].pc = "idle"
       /\ \/ showDeleteConfirmation'[s] # showDeleteConfirmation[s]
          \/ delOp'[s] # delOp[s]
    \/ /\ delHist'[s] # delHist[s]
       /\ delHist'[s].result = "rejected"

C7_NonAuthorStep(s) ==
    (/\ ModalShown(s)
     /\ userId[s] # Sel(s).authorId
     /\ C7_AnswersModal(s))
    => /\ papersDb' = papersDb
       /\ commentsDb' = commentsDb
       /\ selectedPaper'[s] = selectedPaper[s]
       /\ delOp'[s] = delOp[s]
       /\ delPending'[s] = delPending[s]

\* C7: a step in which a session whose focus is a paper of another author
\* answers the delete confirmation (Yes or Cancel) changes neither
\* collection, starts no delete and leaves the focus as it was.
C7_DeleteByNonAuthor ==
    [][\A s \in Sessions : C7_NonAuthorStep(s)]_vars

C7_Witness ==
    \E s \in Sessions :
        /\ delHist[s].result = "rejected"
        /\ delHist[s].by # delHist[s].author
        /\ PaperExists(delHist[s].id)
        /\ HasSel(s)

\* the last deletePaper of session s got through steps 1 and 2 and every
\* comment delete it launched has settled
CascadeSettled(s) ==
    /\ delHist[s].result = "success"
    /\ delOp[s].pc = "idle"
    /\ delPending[s] = {}

\* C8: when a deletePaper of X has settled and no store call of it failed,
\* X is not in the papers collection and no comment that referenced X when
\* the delete started is in the comments collection.
C8_CascadeRemovesComments ==
    \A s \in Sessions :
        (CascadeSettled(s) /\ delHist[s].failed = {})
        => /\ ~PaperExists(delHist[s].id)
           /\ delHist[s].start \cap DOMAIN commentsDb = {}

C8_Witness ==
    \E s \in Sessions :
        /\ CascadeSettled(s)
        /\ delHist[s].failed = {}
        /\ Cardinality(delHist[s].start) = 2
        /\ delHist[s].matched = delHist[s].start

\* C9 as stated: once a deletePaper of X has settled with every store call
\* of it successful, no comment in the store references X.
C9_NoOrphanAfterCascade ==
    \A s \in Sessions :
        (CascadeSettled(s) /\ delHist[s].failed = {})
        => Referencing(delHist[s].id) = {}

\* C10: when a matched comment's delete has failed and the cascade has
\* settled, X is still deleted, every matched comment whose delete did not
\* fail is deleted, and the operation ended as a success: focus cleared and
\* no error set by it.
C10_FailedCommentDeleteTolerated ==
    \A s \in Sessions :
        (/\ delHist[s].matched \cap delHist[s].failed # {}
         /\ delOp[s].pc = "idle"
         /\ delPending[s] = {})
        => /\ ~PaperExists(delHist[s].id)
           /\ (delHist[s].matched \ delHist[s].failed)
                 \cap DOMAIN commentsDb = {}
           /\ delHist[s].result = "success"

C10_Witness ==
    \E s \in Sessions :
        /\ CascadeSettled(s)
        /\ Cardinality(delHist[s].matched) = 2
        /\ Cardinality(delHist[s].failed) = 1
        /\ delHist[s].failed \subseteq DOMAIN commentsDb
        /\ dbError[s] = NoErr

\* C11 as stated: every step in which a comment delete of session s's
\* cascade fails raises an error signal for s in that step.
C11_FailedCommentDeleteSignalled ==
    [][\A s \in Sessions :
          delHist'[s].failed # delHist[s].failed => dbError'[s] # NoErr]_vars

\* C12 as stated: the step that ends a deletePaper whose paper delete has
\* succeeded (the comment query settles, with or without an error) leaves
\* the session without focus.
C12_FocusClearedAfterPaperDelete ==
    [][\A s \in Sessions :
          (delOp[s].pc = "query" /\ delOp'[s].pc = "idle")
          => selectedPaper'[s] = NoPaper]_vars

\* C14 as stated: in every state, a session without focus is not in
\* edit-mode.
C14_NoFocusNoEditMode ==
    \A s \in Sessions : ~HasSel(s) => ~isEditing[s]

\* C13: a papers snapshot delivered to a session whose focus has id X makes
\* the focus the snapshot's copy of X if the snapshot holds X, and otherwise
\* clears the focus and empties the comment list.
C13_SnapshotReselects ==
    [][\A s \in Sessions :
          (PapersSnapshot(s) /\ HasSel(s))
          => IF Sel(s).id \in DOMAIN papers'[s]
             THEN selectedPaper'[s] = << papers'[s][Sel(s).id] >>
             ELSE selectedPaper'[s] = NoPaper /\ comments'[s] = << >>]_vars

C13_Witness ==
    /\ HasSel(2)
    /\ Sel(2).id = 1
    /\ Sel(2).title = "c"
    /\ Sel(2).updatedAt = 1
    /\ ~PaperExists(2)
    /\ ~HasSel(3)
    /\ comments[3] = << >>
    /\ Referencing(2) # {}

\* timestamp a is earlier than timestamp b
TimestampBefore(a, b) ==
    \/ a[1].seconds < b[1].seconds
    \/ a[1].seconds = b[1].seconds /\ a[1].nanoseconds < b[1].nanoseconds

\* comment x has to come before comment y: x has no timestamp and y has
\* one, or x's timestamp is the earlier one
ComesBefore(x, y) ==
    IF x.timestamp = NoTimestamp
    THEN y.timestamp # NoTimestamp
    ELSE y.timestamp # NoTimestamp /\ TimestampBefore(x.timestamp, y.timestamp)

\* C15 as stated: the comment list a delivered snapshot leaves is a
\* permutation of the snapshot's documents in ascending order of timestamp,
\* the comments without timestamp first.
C15_CommentsInTimestampOrder ==
    [][\A s \in Sessions :
          (inflight[s] # << >> /\ CommentsDeliver(s))
          => /\ Len(comments'[s]) = Len(Head(inflight[s]).docs)
             /\ Elements(comments'[s]) = Elements(Head(inflight[s]).docs)
             /\ \A i, j \in 1..Len(comments'[s]) :
                   i < j => ~ComesBefore(comments'[s][j], comments'[s][i])]_vars

\* C16: whenever a session has a focus, every comment in its comment list
\* and every comment snapshot still to be delivered to it belongs to the
\* focused paper; without focus nothing is left to be delivered.
C16_CommentsOfFocusOnly ==
    \A s \in Sessions :
        /\ HasSel(s) =>
              \A i \in 1..Len(comments[s]) :
                 comments[s][i].paperId = Sel(s).id
        /\ \A k \in 1..Len(inflight[s]) :
              HasSel(s) /\ inflight[s][k].paperId = Sel(s).id

C16_Witness ==
    /\ HasSel(2)
    /\ Sel(2).id = 2
    /\ Len(comments[2]) = 1
    /\ Referencing(1) # {}
    /\ inflight[2] # << >>

\* C17 as stated: a signed-in session has exactly one live papers listener
\* and at most one live comments listener, which filters by the focused
\* paper's id; without focus it has no live comments listener.
C17_OneLiveQueryEach ==
    \A s \in Sessions :
        userId[s] # NoUser =>
            /\ papersSub[s] = 1
            /\ Cardinality(commentsSub[s]) <= 1
            /\ commentsSub[s] \subseteq
                  (IF HasSel(s) THEN {Sel(s).id} ELSE {})

\* C18: a step in which a live query delivers an error to a session leaves
\* the session's papers list, comment list and focus as they were and sets
\* the error; a snapshot delivered to a session that has had such an error
\* is applied.
C18_SyncErrorKeepsLastGood ==
    [][\A s \in Sessions :
          /\ (PapersError(s) \/ CommentsError(s))
             => /\ papers'[s] = papers[s]
                /\ comments'[s] = comments[s]
                /\ selectedPaper'[s] = selectedPaper[s]
                /\ dbError'[s] # NoErr
          /\ (syncErr[s] # << >> /\ PapersSnapshot(s))
             => papers'[s] = papersDb
          /\ (syncErr[s] # << >> /\ inflight[s] # << >> /\ CommentsDeliver(s))
             => comments'[s] = sortComments(Head(inflight[s]).docs)]_vars

C18_Witness ==
    /\ syncErr[2] # << >>
    /\ syncErr[2][1].comments = << >>
    /\ syncErr[2][1].focus # NoPaper
    /\ comments[2] # << >>
    /\ syncErr[2][1].papers # papers[2]

\* history: session s has had the call op returned at its guard for reason why
Refused(s, op, why) == <<op, why>> \in rejected[s]

\* a step of session s that is a call of one of the six mutating operations
MutatingCall(s) ==
    \/ \E t \in InputTexts, c \in InputTexts, ok \in BOOLEAN :
          handleAddPaper(s, t, c, ok)
    \/ \E ok \in BOOLEAN : handleUpdatePaper(s, ok)
    \/ \E p \in PaperIds : handleLikePaper(s, p)
    \/ executeDeletePaper(s)
    \/ \E text \in InputTexts, ok \in BOOLEAN : handleAddComment(s, text, ok)
    \/ \E c \in CommentIds, ok \in BOOLEAN : deleteCommentCall(s, c, ok)

\* no session has an identity or a store call in flight
NobodyActive ==
    \A s \in Sessions :
        /\ userId[s] = NoUser
        /\ likeTx[s].pc = "idle"
        /\ delOp[s].pc = "idle"
        /\ delPending[s] = {}

\* C19: a call of addPaper, editPaper, toggleLike, deletePaper, addComment or
\* deleteComment made while the session has no identity leaves the store as
\* it is and starts no transaction, delete or query, and reports no store
\* failure; and while no session has an identity or a call in flight, no
\* step at all changes the store.
C19_NoIdentityNoStoreCall ==
    [][/\ \A s \in Sessions :
             (userId[s] = NoUser /\ MutatingCall(s))
                 => UNCHANGED <<storeVars, opVars, dbError>>
       /\ NobodyActive => UNCHANGED <<storeVars, opVars>>]_vars

\* the signed-out session has called each of the six operations, each call
\* was turned away, and the store is as it was published
C19_Witness ==
    /\ userId[1] = NoUser
    /\ Refused(1, "addPaper", "unauthenticated")
    /\ Refused(1, "editPaper", "unauthenticated")
    /\ Refused(1, "toggleLike", "unauthenticated")
    /\ Refused(1, "addComment", "unauthenticated")
    /\ Refused(1, "deleteComment", "unauthenticated")
    /\ delHist[1].result = "rejected" /\ delHist[1].by = NoUser
    /\ papersDb = Published(<<1>>)

\* String.prototype.trim leaves nothing of t
Blank(t) == Trim(t) = ""

\* C20: addPaper with an empty or blank title or content, editPaper with an
\* empty or blank title or content, and addComment with an empty or blank
\* text leave the store as it is, start no store call and report no store
\* failure; no paper in the store has an empty title or content and no
\* comment an empty text.
C20_InvalidInputNoStoreCall ==
    [][/\ \A s \in Sessions :
          /\ \A t \in FormTexts, c \in FormTexts :
                ((Blank(t) \/ Blank(c))
                   /\ \E ok \in BOOLEAN : handleAddPaper(s, t, c, ok))
                    => UNCHANGED <<storeVars, opVars, dbError>>
          /\ ((Blank(editTitle[s]) \/ Blank(editContent[s]))
                   /\ \E ok \in BOOLEAN : handleUpdatePaper(s, ok))
                    => UNCHANGED <<storeVars, opVars, dbError>>
          /\ \A text \in FormTexts :
                (Blank(text) /\ \E ok \in BOOLEAN : handleAddComment(s, text, ok))
                    => UNCHANGED <<storeVars, opVars, dbError>>
       /\ \A p \in DOMAIN papersDb' :
             papersDb'[p].title # "" /\ papersDb'[p].content # ""
       /\ \A c \in DOMAIN commentsDb' : commentsDb'[c].text # ""]_vars

\* the signed-in session has submitted each form with an invalid text, each
\* call was turned away, and the store is as it was published
C20_Witness ==
    /\ userId[1] # NoUser
    /\ Refused(1, "addPaper", "invalid")
    /\ Refused(1, "editPaper", "invalid")
    /\ Refused(1, "addComment", "invalid")
    /\ papersDb = Published(<<1>>)
    /\ commentsDb = << >>

\* a step in which the store refuses the commit of session s's transaction
CommitRefused(s) == TxCommit(s) /\ likeTx[s].stale

\* C21: a toggleLike transaction whose last attempt is refused ends: the
\* handler is idle again, the error is shown, and the outcome is
\* exhaustion; no step of a call before its commit writes the paper, so the
\* exhausted call has written nothing; an idle handler starts an attempt
\* only when it is called, and no call runs more than MaxAttempts attempts.
C21_ExhaustionIsTerminal ==
    [][\A s \in Sessions :
          /\ (TxGet(s) \/ CommitRefused(s)) => UNCHANGED <<papersDb, toggled>>
          /\ (CommitRefused(s) /\ likeTx[s].attempt >= MaxAttempts)
                => /\ likeTx'[s] = IdleTx
                   /\ dbError'[s] = "Failed to toggle like"
                   /\ likeOutcome'[s] = "exhausted"
          /\ (likeTx[s].pc = "idle" /\ likeTx'[s].pc # "idle")
                => likeCalls'[s] = likeCalls[s] + 1
          /\ likeTx'[s].attempt <= MaxAttempts]_vars

\* one liker's only call has ended in exhaustion with the error shown, it
\* has toggled nothing, and the two others have each committed a like
C21_Witness ==
    \E s \in Likers :
        /\ likeOutcome[s] = "exhausted"
        /\ likeTx[s] = IdleTx
        /\ likeCalls[s] = 1
        /\ dbError[s] = "Failed to toggle like"
        /\ toggled[userId[s]][1] = 0
        /\ ~Includes(papersDb[1].likedBy, userId[s])
        /\ papersDb[1].likes = NLikers - 1

\* the papers that are in the store before and after a step
Surviving == DOMAIN papersDb \cap DOMAIN papersDb'

\* C22: an editPaper call leaves likes, likedBy and authorId of every paper
\* as they are; likes or likedBy of an existing paper changes only in a step
\* that commits a toggleLike transaction; authorId of an existing paper
\* never changes; and after every step each existing paper's likedBy holds
\* exactly the identities with an odd number of committed toggles on it,
\* and likes is its length.
C22_LikesOnlyByTransaction ==
    [][/\ \A s \in Sessions :
             (\E ok \in BOOLEAN : handleUpdatePaper(s, ok))
                 => /\ DOMAIN papersDb' = DOMAIN papersDb
                    /\ \A p \in Surviving :
                          /\ papersDb'[p].likes = papersDb[p].likes
                          /\ papersDb'[p].likedBy = papersDb[p].likedBy
                          /\ papersDb'[p].authorId = papersDb[p].authorId
       /\ \A p \in Surviving :
             /\ (papersDb'[p].likes # papersDb[p].likes
                    \/ papersDb'[p].likedBy # papersDb[p].likedBy)
                   => \E s \in Sessions : TxCommit(s) /\ likeTx[s].id = p
             /\ papersDb'[p].authorId = papersDb[p].authorId
       /\ \A p \in DOMAIN papersDb' :
             /\ papersDb'[p].likes = Len(papersDb'[p].likedBy)
             /\ \A u \in Users :
                   Includes(papersDb'[p].likedBy, u) <=> toggled'[u][p] % 2 = 1
      ]_vars

\* user 2's like was committed and shown in its list before user 1's edit
\* was written, and the edited paper still carries the like
C22_Witness ==
    /\ 1 \in DOMAIN papers[2]
    /\ papers[2][1].likedBy = <<2>> /\ papers[2][1].updatedAt = 0
    /\ PaperExists(1)
    /\ papersDb[1].updatedAt > 0
    /\ papersDb[1].likes = 1 /\ papersDb[1].likedBy = <<2>>
    /\ editedBy[1] = {1}

\* a step in which session s removes comment c through its delete button
RemovedByItsAuthor(s, c) ==
    /\ handleDeleteComment(s, c, TRUE)
    /\ userId[s] = commentsDb[c].userId

\* a step in which a comment delete launched by a deletePaper of session s
\* removes comment c, whose paper that deletePaper has deleted
RemovedByCascade(s, c) ==
    /\ DeleteCommentDoc(s, c, TRUE)
    /\ ~PaperExists(commentsDb[c].paperId)

\* every delete button session s is shown belongs to a comment of its own
OwnButtonsOnly ==
    \A s \in Sessions : \A c \in DOMAIN commentsDb :
        DeleteButtonShown(s, c) => userId[s] = commentsDb[c].userId

UnlikeCommitted(s) ==
    /\ TxCommit(s)
    /\ ~likeTx[s].stale
    /\ Includes(likeTx[s].likedBy, userId[s])

\* C24: when a toggleLike transaction that read the caller in likedBy
\* commits, the likes it writes is 0 if the likes it read was missing, or
\* 1 or less, and the likes it read less 1 otherwise; it is never negative,
\* and the caller is no longer in likedBy.
C24_UnlikeNeverNegative ==
    [][\A s \in Sessions :
          UnlikeCommitted(s) =>
              LET read    == likeTx[s].likes
                  written == papersDb'[likeTx[s].id].likes
              IN  /\ written >= 0
                  /\ written = IF read = Undefined \/ read <= 1
                               THEN 0
                               ELSE read - 1
                  /\ ~Includes(papersDb'[likeTx[s].id].likedBy, userId[s])
      ]_vars

\* user 1, listed in likedBy of a paper with no likes field, has unliked it,
\* nobody else has written, and likes is 0
C24_Witness ==
    /\ papers[1][1].likes = Undefined
    /\ Includes(papers[1][1].likedBy, 1)
    /\ toggled[1][1] = 1
    /\ toggled[2][1] = 0
    /\ papersDb[1].likes = 0
    /\ ~Includes(papersDb[1].likedBy, 1)

\* C25: a session that has a paper focused comes to a state where the
\* store owes it no papers snapshot, or leaves the paper.
C25_FocusedSessionQuiesces ==
    \A s \in Viewers :
        HasSel(s) ~> (~SnapshotOwed(s) \/ ~HasSel(s))

\* session s shows the edit form on a focused paper
EditFormShown(s) == isEditing[s] /\ HasSel(s)

\* C26: every step that ends with the edit form shown on a paper either
\* enters edit-mode on that paper, seeding the buffer from it, or started with
\* the edit form shown on the paper of the same id; so the paper a Save would
\* update is always the paper the buffer was seeded from.
C26_EditTargetsSeedPaper ==
    [][\A s \in Sessions :
          EditFormShown(s)' =>
              \/ handleEditClick(s)
              \/ /\ EditFormShown(s)
                 /\ selectedPaper'[s][1].id = Sel(s).id]_vars

\* C27: when the deleteDoc of the paper fails, the call ends in that step:
\* the papers, the comments and the comment deletes in flight are as they
\* were, the focus is as it was, the handler is idle with no query to come,
\* the error is shown and the confirmation is closed; and a comment query is
\* only ever issued for a paper that is no longer in the store.
C27_FailedPaperDeleteStops ==
    [][\A s \in Sessions :
          /\ DeletePaperDoc(s, FALSE)
                => /\ UNCHANGED <<papersDb, commentsDb, delPending>>
                   /\ selectedPaper'[s] = selectedPaper[s]
                   /\ delOp'[s] = IdleDel
                   /\ dbError'[s] = "Failed to delete paper"
                   /\ ~showDeleteConfirmation'[s]
          /\ (\E ok \in BOOLEAN : DeleteQuery(s, ok))
                => ~PaperExists(delOp[s].id)]_vars

\* user 1's deletePaper has failed at the paper: paper 1 and its comments
\* are in the store, nothing was matched or launched, paper 1 is still
\* focused, the error is shown and the modal is closed
C27_Witness ==
    /\ delHist[1].result = "error"
    /\ delHist[1].matched = {}
    /\ PaperExists(1)
    /\ CommentsOf(1) # {}
    /\ delPending[1] = {}
    /\ delOp[1] = IdleDel
    /\ HasSel(1) /\ Sel(1).id = 1
    /\ dbError[1] = "Failed to delete paper"
    /\ ~showDeleteConfirmation[1]


=============================================================================
